---- MODULE Spec2Model ----
(***************************************************************************)
(* A model of the D4 dispersion model of tad-dftd4:                        *)
(*   src/src/tad_dftd4/model.py      zeta, trapzd, weight_cn, D4Model      *)
(*   src/src/tad_dftd4/ncoord/d4.py  get_coordination_number_d4            *)
(*                                                                         *)
(* Floating-point numbers are modelled exactly on a grid of inputs:        *)
(* coordination numbers are integers, so every Gaussian exp(-dcn*dcn) is   *)
(* the power t^(dcn*dcn) of t = exp(-1).  A non-negative value is the bag  *)
(* of the exponents of its terms (a polynomial in t), NaN and 0 are kept   *)
(* apart, and exp underflows to 0 beyond ExpUnderflow.  A quotient keeps   *)
(* its numerator and denominator.  The zeta factor is kept as the term    *)
(* of its arguments, with the two values the code fixes (exp(a) for a      *)
(* non-positive charge, 1 for qref = qmod) told apart.                     *)
(***************************************************************************)
EXTENDS Bags, FiniteSets, Integers, Sequences, TLC

VARIABLES
    \* D4Model.weight_references
    numbers, cn, q, pc, err, expw, f, z, gwks, gwvec, iat, ret,
    \* zeta / zeta2 called on their own
    zin, zout, zout2, zpc,
    \* D4Model.get_atomic_c6
    cnumbers, cgw, cpc, cerr, alpha, c6, ci, cj,
    \* get_coordination_number_d4
    npc, nshape, pshape, rshape, eshape, nerr, pairwise, cnout

wvars == <<numbers, cn, q, pc, err, expw, f, z, gwks, gwvec, iat, ret>>
zvars == <<zin, zout, zout2, zpc>>
cvars == <<cnumbers, cgw, cpc, cerr, alpha, c6, ci, cj>>
nvars == <<npc, nshape, pshape, rshape, eshape, nerr, pairwise, cnout>>
vars == <<wvars, zvars, cvars, nvars>>

----------------------------------------------------------------------------
(* Bounds of the model *)

MaxAtoms == 2

----------------------------------------------------------------------------
(* Model parameters and reference data *)

ga_default == 3
gc_default == 2
wf_default == 6

\* D4Model() with its default configuration
ga == ga_default
gc == gc_default
wf == wf_default

\* number of valid reference states of Z = 0, 1, 2, 3 (first entries of refn)
refn == <<0, 2, 1, 3>>

Elements == 0 .. (Len(refn) - 1)

RECURSIVE SeqMax(_)
SeqMax(s) ==
    IF Len(s) = 1 THEN s[1]
    ELSE LET m == SeqMax(Tail(s)) IN IF s[1] > m THEN s[1] ELSE m

\* width of the padded reference tables (the largest refn)
NRef == SeqMax(refn)
RefCols == 1 .. NRef

Pad(s) == [r \in RefCols |-> IF r <= Len(s) THEN s[r] ELSE 0]

\* params.npz: multiplicity codes, reference CN and reference charges of a
\* small table, zero padded beyond refn[Z]
refc == <<Pad(<<>>), Pad(<<1, 3>>), Pad(<<1>>), Pad(<<3, 2, 1>>)>>
refcn == <<Pad(<<>>), Pad(<<1, 0>>), Pad(<<0>>), Pad(<<0, 2, 2>>)>>
refq == <<Pad(<<>>), Pad(<<0, 1>>), Pad(<<0>>), Pad(<<0, 1, 1>>)>>

\* data.zeff: effective nuclear charge of Z = 0..3
zeff == <<0, 1, 2, 3>>

\* data.gam[Z] is kept by the element it belongs to
gam(Z) == Z

\* torch.exp(-x) is 0.0 for x beyond this (float64; the inputs below keep
\* every exponent under 88 or over 745, where float32 behaves the same)
ExpUnderflow == 745

----------------------------------------------------------------------------
(* Numbers *)

\* a CN-like scalar: an integer or NaN
Fin(v) == [nan |-> FALSE, v |-> v]
NaNIn == [nan |-> TRUE, v |-> 0]

UnitBag == SetToBag({0})

\* a non-negative value: NaN or a sum of powers of t = exp(-1)
NaN == [k |-> "nan", b |-> EmptyBag]
Poly(b) == [k |-> "fin", b |-> b]
Zero == Poly(EmptyBag)
Term(e) == IF e > ExpUnderflow THEN Zero ELSE Poly(SetToBag({e}))
IsNaN(v) == v.k = "nan"

Add(a, b) == IF IsNaN(a) \/ IsNaN(b) THEN NaN ELSE Poly(a.b (+) b.b)

RECURSIVE SumSeq(_)
SumSeq(s) == IF DOMAIN s = {} THEN Zero ELSE Add(s[1], SumSeq(Tail(s)))

\* cn - cnref and its square
Dcn(cnv, cnref) == IF cnv.nan THEN NaNIn ELSE Fin(cnv.v - cnref)
Sq(d) == IF d.nan THEN NaNIn ELSE Fin(d.v * d.v)

\* torch.exp(-x) for x >= 0
TorchExpNeg(x) == IF x.nan THEN NaN ELSE Term(x.v)

\* torch.pow(v, w) of a single power of t (or 0, or NaN), w > 0
TorchPow(v, w) ==
    IF IsNaN(v) THEN NaN
    ELSE IF v = Zero THEN Zero
    ELSE Term(w * (CHOOSE e \in BagToSet(v.b) : TRUE))

\* a quotient: NaN, infinity, or num / den of two sums of powers
QNaN == [k |-> "nan", num |-> EmptyBag, den |-> EmptyBag]
QInf == [k |-> "inf", num |-> EmptyBag, den |-> EmptyBag]
Quot(n, d) == [k |-> "fin", num |-> n, den |-> d]
QOne == Quot(UnitBag, UnitBag)
QZero == Quot(EmptyBag, UnitBag)
QIsZero(x) == x.k = "fin" /\ x.num = EmptyBag
QIsOne(x) == x.k = "fin" /\ x.num = x.den

\* a / b of tensors (IEEE: 0/0 is NaN, x/0 is inf)
TorchDiv(a, b) ==
    IF IsNaN(a) \/ IsNaN(b) THEN QNaN
    ELSE IF b = Zero THEN (IF a = Zero THEN QNaN ELSE QInf)
    ELSE Quot(a.b, b.b)

----------------------------------------------------------------------------
(* zeta *)

ZRec(k, a, c, qref, qmod) == [k |-> k, a |-> a, c |-> c, qref |-> qref, qmod |-> qmod]
ZOne == ZRec("one", 0, 0, 0, 0)
\* exp(a) of a tensor a
ZExp(a) == ZRec("exp", a, 0, 0, 0)
\* torch.exp of a Python float raises TypeError
ZTypeError == ZRec("TypeError", 0, 0, 0, 0)

\* exp(a * (1 - exp(c * (1 - qref / qmod)))) for qmod > 0: exactly 1 when
\* qref = qmod, else the term of its arguments
ZetaFormula(a, c, qref, qmod) ==
    IF qref = qmod THEN ZOne ELSE ZRec("zeta", a, c, qref, qmod)

\* zeta(a, c, qref, qmod), a being the Python float self.ga
zeta(a, c, qref, qmod) ==
    IF qmod <= 0 THEN ZTypeError ELSE ZetaFormula(a, c, qref, qmod)

\* zeta2(scale, gam, qref, qmod) inside weight_references
zeta2(scale, g, qref, qmod) ==
    IF qmod <= 0 THEN ZExp(scale) ELSE ZetaFormula(scale, g, qref, qmod)

----------------------------------------------------------------------------
(* D4Model.weight_references: the vectorized part *)

Atoms == 1 .. Len(numbers)

\* mask = refc[numbers] > 0
Mask(Z, r) == refc[Z + 1][r] > 0

\* tmp = torch.exp(-dcn * dcn)
Tmp(Z, cnv, r) == TorchExpNeg(Sq(Dcn(cnv, refcn[Z + 1][r])))

\* expw: the nested torch.where over the multiplicity code
Expw(Z, cnv, r) ==
    IF Mask(Z, r)
    THEN IF refc[Z + 1][r] = 3
         THEN Add(TorchPow(Tmp(Z, cnv, r), wf),
                  Add(TorchPow(Tmp(Z, cnv, r), 2 * wf),
                      TorchPow(Tmp(Z, cnv, r), 3 * wf)))
         ELSE IF refc[Z + 1][r] = 1
              THEN TorchPow(Tmp(Z, cnv, r), wf)
              ELSE Tmp(Z, cnv, r)
    ELSE Zero

\* norm = torch.sum(expw, dim=-1, keepdim=True)
NormSingleTerm(Z, cnv) ==
    SumSeq([r \in RefCols |->
              IF Mask(Z, r) THEN TorchPow(Tmp(Z, cnv, r), wf) ELSE Zero])
Norm(Z, cnv) == SumSeq([r \in RefCols |-> Expw(Z, cnv, r)])

\* maxcn = torch.max(refcn[numbers], dim=-1, keepdim=True)[0]
Maxcn(Z) == SeqMax(refcn[Z + 1])

\* gwk = expw / norm
Gwk(Z, cnv, r) == TorchDiv(Expw(Z, cnv, r), Norm(Z, cnv))

\* norm > torch.finfo(dtype).max: a sum of at most 3 * NRef powers of
\* t <= 1 never is
ExceedsMax(v) == FALSE

\* exceptional = isnan(norm) | (norm > finfo.max)
Exceptional(Z, cnv) == IsNaN(Norm(Z, cnv)) \/ ExceedsMax(Norm(Z, cnv))

\* f = torch.where(exceptional, where(refcn == maxcn, 1.0, 0.0), gwk)
F(Z, cnv, r) ==
    IF Exceptional(Z, cnv)
    THEN IF refcn[Z + 1][r] = Maxcn(Z) THEN QOne ELSE QZero
    ELSE Gwk(Z, cnv, r)

\* z = zeta2(self.ga, gam, refq[numbers] + zeff, q + zeff)
ZTensor(Z, qv, r) == zeta2(ga, gam(Z), refq[Z + 1][r] + zeff[Z + 1], qv + zeff[Z + 1])

\* a weight times a zeta factor (the factor is finite and positive)
RNaN == [w |-> QNaN, z |-> ZOne]
RZero == [w |-> QZero, z |-> ZOne]
Mul(w, zt) ==
    IF w.k = "nan" THEN RNaN
    ELSE IF QIsZero(w) THEN RZero
    ELSE [w |-> w, z |-> zt]

\* mref = torch.max(refn[numbers])
Mref == SeqMax([a \in Atoms |-> refn[numbers[a] + 1]])

\* a local not assigned yet
NoZ == [shape |-> "none", v |-> <<>>]

Vectorized ==
    /\ pc = "start"
    /\ pc' = "loop"
    /\ expw' = [shape |-> "tensor",
                v |-> [a \in Atoms |-> [r \in RefCols |-> Expw(numbers[a], cn[a], r)]]]
    /\ f' = [a \in Atoms |-> [r \in RefCols |-> F(numbers[a], cn[a], r)]]
    /\ z' = [shape |-> "tensor",
             v |-> [a \in Atoms |-> [r \in RefCols |-> ZTensor(numbers[a], q[a], r)]]]
    /\ gwvec' = [a \in Atoms |-> [r \in 1 .. Mref |-> RZero]]
    /\ gwks' = [a \in Atoms |-> [r \in RefCols |-> QZero]]
    /\ iat' = 1
    /\ UNCHANGED <<numbers, cn, q, err, ret>>

----------------------------------------------------------------------------
(* D4Model.weight_references: the loop over atoms and references *)

\* weight_cn(wf, cn, cnref) = torch.exp(-wf * dcn * dcn)
weight_cn(w, cnv, cnref) ==
    LET d2 == Sq(Dcn(cnv, cnref))
    IN  TorchExpNeg(IF d2.nan THEN NaNIn ELSE Fin(w * d2.v))

\* norm += torch.pow(tmp, twf) over iref < refn[izp], igw < refc[izp][iref]
LoopNorm(Z, cnv) ==
    SumSeq([iref \in 1 .. refn[Z + 1] |->
              SumSeq([igw \in 1 .. refc[Z + 1][iref] |->
                        TorchPow(Tmp(Z, cnv, iref), igw * wf)])])

\* norm stays the Python float 0.0 when the loops add nothing
LoopNormIsFloatZero(Z) == \A iref \in 1 .. refn[Z + 1] : refc[Z + 1][iref] = 0

\* expw += weight_cn(twf, cn[iat], refcn[izp][iref])
LoopExpw(Z, cnv, iref) ==
    SumSeq([igw \in 1 .. refc[Z + 1][iref] |->
              weight_cn(igw * wf, cnv, refcn[Z + 1][iref])])

\* norm = 1.0 / norm; gwk = expw * norm (1/0 is inf, 0 * inf is NaN)
MulRecip(e, n) ==
    IF IsNaN(e) \/ IsNaN(n) THEN QNaN
    ELSE IF n = Zero THEN (IF e = Zero THEN QNaN ELSE QInf)
    ELSE Quot(e.b, n.b)

LoopGwkRaw(Z, cnv, iref) == MulRecip(LoopExpw(Z, cnv, iref), LoopNorm(Z, cnv))

\* if torch.isnan(gwk): gwk = 1.0 if refcn[izp][iref] == maxcn else 0.0
\* (maxcn is the (nat, 1) tensor of the vectorized part)
LoopGwk(Z, cnv, iref) ==
    IF LoopGwkRaw(Z, cnv, iref).k = "nan"
    THEN IF refcn[Z + 1][iref] = Maxcn(numbers[1]) THEN QOne ELSE QZero
    ELSE LoopGwkRaw(Z, cnv, iref)

\* z = zeta(self.ga, gi, refq[izp][iref] + zi, q[iat] + zi)
LoopZ(Z, qv, iref) ==
    zeta(ga, gam(Z), refq[Z + 1][iref] + zeff[Z + 1], qv + zeff[Z + 1])

\* what one reference raises: bool() of the (nat, 1) comparison with maxcn
\* when nat > 1, then torch.exp of the float self.ga inside zeta
RefRaises(Z, cnv, qv, iref) ==
    IF LoopGwkRaw(Z, cnv, iref).k = "nan" /\ Len(numbers) > 1 THEN "RuntimeError"
    ELSE IF LoopZ(Z, qv, iref).k = "TypeError" THEN "TypeError"
    ELSE "none"

\* what the iteration of one atom raises, if anything
AtomRaises(Z, cnv, qv) ==
    IF LoopNormIsFloatZero(Z) THEN "ZeroDivisionError"
    ELSE LET bad == {iref \in 1 .. refn[Z + 1] : RefRaises(Z, cnv, qv, iref) # "none"}
         IN  IF bad = {} THEN "none"
             ELSE RefRaises(Z, cnv, qv, CHOOSE i \in bad : \A j \in bad : i <= j)

LoopAtom ==
    /\ pc = "loop"
    /\ iat <= Len(numbers)
    /\ LET Z == numbers[iat]
           e == AtomRaises(Z, cn[iat], q[iat])
       IN  \/ /\ e # "none"
              /\ pc' = "error"
              /\ err' = e
              /\ UNCHANGED <<expw, z, gwks, gwvec, iat>>
           \/ /\ e = "none"
              /\ gwks' = [gwks EXCEPT ![iat] =
                            [r \in RefCols |->
                               IF r <= refn[Z + 1] THEN LoopGwk(Z, cn[iat], r) ELSE @[r]]]
              /\ gwvec' = [gwvec EXCEPT ![iat] =
                             [r \in 1 .. Mref |->
                                IF r <= refn[Z + 1]
                                THEN Mul(LoopGwk(Z, cn[iat], r), LoopZ(Z, q[iat], r))
                                ELSE @[r]]]
              /\ expw' = [shape |-> "scalar", v |-> <<<<LoopExpw(Z, cn[iat], refn[Z + 1])>>>>]
              /\ z' = [shape |-> "scalar", v |-> <<<<LoopZ(Z, q[iat], refn[Z + 1])>>>>]
              /\ iat' = iat + 1
              /\ UNCHANGED <<pc, err>>
    /\ UNCHANGED <<numbers, cn, q, f, ret>>

\* z broadcast against f: the (1,) tensor left by the loop, or the tensor
ZAt(a, r) == IF z.shape = "scalar" THEN z.v[1][1] ELSE z.v[a][r]

\* return (f * z).mT
Return ==
    /\ pc = "loop"
    /\ iat > Len(numbers)
    /\ ret' = [r \in RefCols |-> [a \in Atoms |-> Mul(f[a][r], ZAt(a, r))]]
    /\ pc' = "done"
    /\ UNCHANGED <<numbers, cn, q, err, expw, f, z, gwks, gwvec, iat>>

----------------------------------------------------------------------------
(* Inputs of weight_references *)

CnValues == {Fin(0), Fin(1), Fin(30), NaNIn}
QValues == {-1, 0}

SeqsUpTo(S, n) == UNION {[1 .. k -> S] : k \in 1 .. n}

InitW ==
    /\ numbers \in SeqsUpTo(Elements, MaxAtoms)
    /\ cn \in [DOMAIN numbers -> CnValues]
    /\ q \in [DOMAIN numbers -> QValues]
    /\ pc = "start"
    /\ err = "none"
    /\ expw = NoZ
    /\ f = <<>>
    /\ z = NoZ
    /\ gwks = <<>>
    /\ gwvec = <<>>
    /\ iat = 0
    /\ ret = <<>>

IdleW ==
    /\ numbers = <<>> /\ cn = <<>> /\ q = <<>> /\ pc = "idle" /\ err = "none"
    /\ expw = NoZ /\ f = <<>> /\ z = NoZ /\ gwks = <<>> /\ gwvec = <<>> /\ iat = 0
    /\ ret = <<>>

IdleZ ==
    /\ zin = [a |-> 0, c |-> 0, qref |-> 0, qmod |-> 0]
    /\ zout = ZOne /\ zout2 = ZOne /\ zpc = {}

IdleC ==
    /\ cnumbers = <<>> /\ cgw = <<>> /\ cpc = "idle" /\ cerr = "none"
    /\ alpha = <<>> /\ c6 = <<>> /\ ci = 0 /\ cj = 0

IdleN ==
    /\ npc = "idle" /\ nshape = <<>> /\ pshape = <<>>
    /\ rshape = [given |-> FALSE, shape |-> <<>>]
    /\ eshape = [given |-> FALSE, shape |-> <<>>]
    /\ nerr = "none" /\ pairwise = FALSE
    /\ cnout = [given |-> FALSE, shape |-> <<>>]

Init == InitW /\ IdleZ /\ IdleC /\ IdleN

Next ==
    \/ Vectorized /\ UNCHANGED <<zvars, cvars, nvars>>
    \/ LoopAtom /\ UNCHANGED <<zvars, cvars, nvars>>
    \/ Return /\ UNCHANGED <<zvars, cvars, nvars>>

Spec == Init /\ [][Next]_vars

----------------------------------------------------------------------------
(* Properties of weight_references *)

ValidRefs(a) == 1 .. refn[numbers[a] + 1]
PaddingRefs(a) == RefCols \ ValidRefs(a)

\* the normalization sum of atom a is a finite, non-zero number
NonDegenerate(a) ==
    /\ ~IsNaN(Norm(numbers[a], cn[a]))
    /\ Norm(numbers[a], cn[a]) # Zero
    /\ ~ExceedsMax(Norm(numbers[a], cn[a]))

RECURSIVE BagSum(_, _)
BagSum(row, S) ==
    IF S = {} THEN EmptyBag
    ELSE LET r == CHOOSE x \in S : TRUE
         IN  row[r].num (+) BagSum(row, S \ {r})

\* the sum of a row of quotients that share their denominator
QRowSum(row) ==
    IF \E r \in DOMAIN row : row[r].k # "fin" THEN QNaN
    ELSE LET nz == {r \in DOMAIN row : ~QIsZero(row[r])}
         IN  IF nz = {} THEN QZero
             ELSE Quot(BagSum(row, nz), row[CHOOSE r \in nz : TRUE].den)

SharedDen(row) ==
    \A r1, r2 \in DOMAIN row :
        (~QIsZero(row[r1]) /\ ~QIsZero(row[r2])) => row[r1].den = row[r2].den

\* the entries returned for atom a sum to 1.0
RetRowSumIsOne(a) ==
    /\ QIsOne(QRowSum([r \in RefCols |-> ret[r][a].w]))
    /\ \A r \in RefCols : ~QIsZero(ret[r][a].w) => ret[r][a].z = ZOne

\* C1 as stated: for every atom with a valid reference state and a
\* non-degenerate normalization, the returned weights of the atom sum to 1.0
C1_ReturnedSumIsOne ==
    pc = "done" =>
        \A a \in Atoms :
            (refn[numbers[a] + 1] > 0 /\ NonDegenerate(a)) => RetRowSumIsOne(a)

\* C1 amended: for every atom with a valid reference state and a finite,
\* non-zero normalization sum, the normalized weights f (before the zeta
\* factor multiplies them) sum to 1.0 over the reference states, and so do
\* the weight parts of the returned entries f * z
C1_NormalizedSumIsOne ==
    /\ pc \in {"loop", "done", "error"} =>
           \A a \in Atoms :
               (refn[numbers[a] + 1] > 0 /\ NonDegenerate(a)) =>
                   SharedDen(f[a]) /\ QIsOne(QRowSum(f[a]))
    /\ pc = "done" =>
           \A a \in Atoms :
               (refn[numbers[a] + 1] > 0 /\ NonDegenerate(a)) =>
                   QIsOne(QRowSum([r \in RefCols |-> ret[r][a].w]))

\* a returned atom with several weighted references, a multiplicity-3
\* reference among them, whose zeta factor is not 1
C1_Witness ==
    /\ pc = "done"
    /\ \E a \in Atoms :
           /\ NonDegenerate(a)
           /\ Cardinality({r \in RefCols : ~QIsZero(f[a][r])}) >= 2
           /\ \E r \in ValidRefs(a) : refc[numbers[a] + 1][r] = 3
           /\ QIsOne(QRowSum(f[a]))
           /\ ~RetRowSumIsOne(a)

\* C2: every padding entry (r beyond refn[Z_a]) of the returned tensor is
\* exactly 0, on the normal path and in the fallback
C2_PaddingIsZero ==
    pc = "done" =>
        \A a \in Atoms : \A r \in PaddingRefs(a) : ret[r][a] = RZero

\* C6: an atom (with a valid reference state) whose normalization sum is
\* zero, NaN or beyond the largest finite value gets the indicator of the
\* maximal reference CN as its weight vector, and nothing returned for it is
\* NaN or infinite
C6_DegenerateGetsIndicator ==
    pc = "done" =>
        \A a \in Atoms :
            (refn[numbers[a] + 1] > 0 /\ ~NonDegenerate(a)) =>
                \A r \in RefCols :
                    /\ f[a][r] = IF refcn[numbers[a] + 1][r] = Maxcn(numbers[a])
                                 THEN QOne ELSE QZero
                    /\ ret[r][a].w.k = "fin"

\* base^wf, base^wf and base^wf + base^(2 wf) + base^(3 wf) for the
\* multiplicity codes 1, 2 and 3
StatedExpw(c, base) ==
    IF c = 3
    THEN Add(TorchPow(base, wf), Add(TorchPow(base, 2 * wf), TorchPow(base, 3 * wf)))
    ELSE TorchPow(base, wf)

\* C10: in the vectorized path the unnormalized weight of a valid reference
\* state is base^wf for the codes 1 and 2 and the three-term sum for code 3
C10_VectorizedExpw ==
    (pc = "loop" /\ expw.shape = "tensor") =>
        \A a \in Atoms : \A r \in ValidRefs(a) :
            expw.v[a][r] = StatedExpw(refc[numbers[a] + 1][r], Tmp(numbers[a], cn[a], r))

\* C11: the vectorized weighting and the loop-driven one agree: for every
\* valid reference state the vectorized unnormalized weight expw equals the
\* loop's sum of base^((igw + 1) wf) over igw < refc, and the normalized f
\* equals the loop's normalized gwks
C11_PathsAgree ==
    /\ (pc = "loop" /\ expw.shape = "tensor") =>
           \A a \in Atoms : \A r \in ValidRefs(a) :
               expw.v[a][r] = LoopExpw(numbers[a], cn[a], r)
    /\ pc = "done" =>
           \A a \in Atoms : \A r \in ValidRefs(a) : f[a][r] = gwks[a][r]

\* C12: the entry returned at (r, a) is f[a, r] times the zeta factor of
\* that same atom and reference (atom a's zeff, gam and charge, reference
\* charge refq[Z_a][r]); the loop between the zeta tensor and the return
\* leaves the factor of each entry as it was
C12_ReturnUsesOwnZeta ==
    pc = "done" =>
        \A a \in Atoms : \A r \in RefCols :
            ret[r][a] = Mul(f[a][r], ZTensor(numbers[a], q[a], r))

----------------------------------------------------------------------------
(* zeta and zeta2 on the same arguments *)

\* zeta(self.ga, c, qref, qmod)
CallZeta ==
    /\ "zeta" \notin zpc
    /\ zout' = zeta(zin.a, zin.c, zin.qref, zin.qmod)
    /\ zpc' = zpc \cup {"zeta"}
    /\ UNCHANGED <<zin, zout2>>

\* zeta2(self.ga, gam, qref, qmod)
CallZeta2 ==
    /\ "zeta2" \notin zpc
    /\ zout2' = zeta2(zin.a, zin.c, zin.qref, zin.qmod)
    /\ zpc' = zpc \cup {"zeta2"}
    /\ UNCHANGED <<zin, zout>>

InitZ ==
    /\ zin \in [a : {ga}, c : {gam(Z) : Z \in Elements}, qref : -2 .. 3, qmod : -2 .. 3]
    /\ zout = ZOne
    /\ zout2 = ZOne
    /\ zpc = {}

InitZeta == InitZ /\ IdleW /\ IdleC /\ IdleN

NextZeta ==
    \/ CallZeta /\ UNCHANGED <<wvars, cvars, nvars>>
    \/ CallZeta2 /\ UNCHANGED <<wvars, cvars, nvars>>

SpecZeta == InitZeta /\ [][NextZeta]_vars

\* C7: both zeta and zeta2 return a value on every input, exp(ga) when
\* qmod <= 0 (whatever qref and gamma are) and the exponential formula when
\* qmod > 0, and they agree
C7_ZetaTotalAndAgree ==
    zpc = {"zeta", "zeta2"} =>
        /\ zout = (IF zin.qmod <= 0 THEN ZExp(zin.a)
                   ELSE ZetaFormula(zin.a, zin.c, zin.qref, zin.qmod))
        /\ zout2 = zout

----------------------------------------------------------------------------
(* trapzd, D4Model._set_refalpha_eeq and D4Model.get_atomic_c6 *)

\* number of frequency samples of a reference polarizability
NFreq == 23

\* a tensor with its rank: a 0-dim scalar or a 1-dim vector
T0(x) == [rank |-> 0, v |-> <<x>>]
T1(xs) == [rank |-> 1, v |-> xs]

IndexError == [k |-> "IndexError", terms |-> <<>>]

\* 0.5 * sum over w in range(23) of weights[w] * a[w] * b[w]; indexing a
\* 0-dim tensor raises IndexError
trapzd(pa, pb) ==
    IF pa.rank = 0 \/ pb.rank = 0 THEN IndexError
    ELSE [k |-> "half_sum",
          terms |-> [w \in 1 .. NFreq |-> <<w, pa.v[w], pb.v[w]>>]]

CAtoms == 1 .. Len(cnumbers)

\* mref = torch.max(refn[numbers])
CMref == SeqMax([a \in CAtoms |-> refn[cnumbers[a] + 1]])

\* alpha[iat, 23 * iref + k]: the clamped polarizability of sample k of
\* reference iref of element izp (kept by its indices), 0.0 beyond refn[izp]
RefAlpha(Z, col) ==
    IF (col - 1) \div NFreq < refn[Z + 1]
    THEN [val |-> "alpha", Z |-> Z, iref |-> (col - 1) \div NFreq, k |-> (col - 1) % NFreq]
    ELSE [val |-> "zero", Z |-> 0, iref |-> 0, k |-> 0]

SetRefAlpha ==
    /\ cpc = "start"
    /\ alpha' = [a \in CAtoms |-> [col \in 1 .. NFreq * CMref |-> RefAlpha(cnumbers[a], col)]]
    /\ c6' = [a \in CAtoms |-> [b \in CAtoms |-> <<>>]]
    /\ ci' = 1
    /\ cj' = 1
    /\ cpc' = "loop"
    /\ UNCHANGED <<cnumbers, cgw, cerr>>

\* alpha[iat][23 * iref]: one element of the row, a 0-dim tensor
AlphaArg(a, iref) == T0(alpha[a][NFreq * iref + 1])

\* the 23 samples alpha[iat, 23 * iref .. 23 * iref + 22]
AlphaSlice(a, iref) == T1([w \in 1 .. NFreq |-> alpha[a][NFreq * iref + w]])

\* refc6 = THOPI * trapzd(alpha[iat][23 * iref], alpha[jat][23 * jref])
RefC6(a, iref, b, jref) == trapzd(AlphaArg(a, iref), AlphaArg(b, jref))

RefPairs(a, b) ==
    {<<iref, jref>> : iref \in 0 .. refn[cnumbers[a] + 1] - 1,
                      jref \in 0 .. refn[cnumbers[b] + 1] - 1}

\* the reference pairs in the order of the two nested loops
RECURSIVE PairSeq(_, _, _, _)
PairSeq(ni, nj, iref, jref) ==
    IF iref >= ni \/ nj = 0 THEN <<>>
    ELSE <<<<iref, jref>>>> \o
         (IF jref + 1 < nj THEN PairSeq(ni, nj, iref, jref + 1)
          ELSE PairSeq(ni, nj, iref + 1, 0))

\* dc6 += gwvec[iref, iat] * gwvec[jref, jat] * refc6, from dc6 = 0.0: the
\* sequence of the terms added (the empty sum is 0.0)
DC6(a, b) ==
    LET ps == PairSeq(refn[cnumbers[a] + 1], refn[cnumbers[b] + 1], 0, 0)
    IN  [n \in 1 .. Len(ps) |->
           [wi |-> cgw[ps[n][1] + 1][a], wj |-> cgw[ps[n][2] + 1][b],
            refc6 |-> RefC6(a, ps[n][1], b, ps[n][2])]]

PairRaises(a, b) ==
    \E p \in RefPairs(a, b) : RefC6(a, p[1], b, p[2]).k = "IndexError"

\* one (iat, jat) iteration of the double loop
PairStep ==
    /\ cpc = "loop"
    /\ ci <= Len(cnumbers)
    /\ \/ /\ PairRaises(ci, cj)
          /\ cpc' = "error"
          /\ cerr' = "IndexError"
          /\ UNCHANGED <<c6, ci, cj>>
       \/ /\ ~PairRaises(ci, cj)
          /\ c6' = [a \in CAtoms |-> [b \in CAtoms |->
                      IF (a = ci /\ b = cj) \/ (a = cj /\ b = ci)
                      THEN DC6(ci, cj) ELSE c6[a][b]]]
          /\ IF cj < Len(cnumbers)
             THEN ci' = ci /\ cj' = cj + 1
             ELSE ci' = ci + 1 /\ cj' = 1
          /\ UNCHANGED <<cpc, cerr>>
    /\ UNCHANGED <<cnumbers, cgw, alpha>>

\* return c6
ReturnC6 ==
    /\ cpc = "loop"
    /\ ci > Len(cnumbers)
    /\ cpc' = "done"
    /\ UNCHANGED <<cnumbers, cgw, cerr, alpha, c6, ci, cj>>

\* gwvec entries are kept by a small set of weights
GwValues == {1, 2}

InitC ==
    /\ cnumbers \in SeqsUpTo(Elements, MaxAtoms)
    /\ cgw \in [RefCols -> [DOMAIN cnumbers -> GwValues]]
    /\ cpc = "start"
    /\ cerr = "none"
    /\ alpha = <<>>
    /\ c6 = <<>>
    /\ ci = 0
    /\ cj = 0

InitC6 == InitC /\ IdleW /\ IdleZ /\ IdleN

NextC6 ==
    \/ SetRefAlpha /\ UNCHANGED <<wvars, zvars, nvars>>
    \/ PairStep /\ UNCHANGED <<wvars, zvars, nvars>>
    \/ ReturnC6 /\ UNCHANGED <<wvars, zvars, nvars>>

SpecC6 == InitC6 /\ [][NextC6]_vars

CFinished == cpc \in {"done", "error"}

\* C3: get_atomic_c6 runs its double loop to the end on every input and
\* returns a matrix that is exactly symmetric, whose diagonal holds the
\* coefficient of the pair (i, i)
C3_SymmetricWithDiagonal ==
    CFinished =>
        /\ cpc = "done"
        /\ \A i, j \in CAtoms : c6[i][j] = c6[j][i]
        /\ \A i \in CAtoms : c6[i][i] = DC6(i, i)

\* the sum over the valid reference pairs of
\* gwvec[r, i] * gwvec[s, j] * (3 / pi) * quadrature(A, B) on the 23-sample
\* vectors A of reference r of atom i and B of reference s of atom j
StatedC6(a, b) ==
    LET ps == PairSeq(refn[cnumbers[a] + 1], refn[cnumbers[b] + 1], 0, 0)
    IN  [n \in 1 .. Len(ps) |->
           [wi |-> cgw[ps[n][1] + 1][a], wj |-> cgw[ps[n][2] + 1][b],
            refc6 |-> trapzd(AlphaSlice(a, ps[n][1]), AlphaSlice(b, ps[n][2]))]]

\* C4: for every atom pair get_atomic_c6 returns the weighted sum of the
\* quadratures of the 23-sample reference polarizabilities
C4_ReturnsReferenceSum ==
    CFinished =>
        /\ cpc = "done"
        /\ \A i, j \in CAtoms : c6[i][j] = StatedC6(i, j)

\* C5: with an atom whose element has no valid reference state, no matrix
\* is returned: the call ends in an error
C5_MissingReferenceFails ==
    (CFinished /\ \E a \in CAtoms : refn[cnumbers[a] + 1] = 0) => cpc = "error"

----------------------------------------------------------------------------
(* get_coordination_number_d4: the shapes of its tensors *)

\* shapes are sequences of dimensions; an optional argument is None or given
None == [given |-> FALSE, shape |-> <<>>]
Given(sh) == [given |-> TRUE, shape |-> sh]

\* shape[:-1]
Leading(sh) == SubSeq(sh, 1, Len(sh) - 1)

\* x.unsqueeze(-2) op x.unsqueeze(-1): (..., n) becomes (..., n, n)
Pairs(sh) == sh \o <<sh[Len(sh)]>>

NoShape == [ok |-> FALSE, shape |-> <<>>]
Shape(sh) == [ok |-> TRUE, shape |-> sh]

\* dimension i (from the right) of a shape, 1 where the shape is shorter
DimR(sh, i) == IF i <= Len(sh) THEN sh[Len(sh) + 1 - i] ELSE 1

\* the shape two tensors broadcast to, if they do
Broadcast(x, y) ==
    IF ~x.ok \/ ~y.ok THEN NoShape
    ELSE LET n == IF Len(x.shape) > Len(y.shape) THEN Len(x.shape) ELSE Len(y.shape)
         IN  IF \A i \in 1 .. n :
                    \/ DimR(x.shape, i) = DimR(y.shape, i)
                    \/ DimR(x.shape, i) = 1
                    \/ DimR(y.shape, i) = 1
             THEN Shape([k \in 1 .. n |->
                           IF DimR(x.shape, n + 1 - k) = 1
                           THEN DimR(y.shape, n + 1 - k)
                           ELSE DimR(x.shape, n + 1 - k)])
             ELSE NoShape

\* rcov = cov_rad_d3[numbers] and en = pauling_en[numbers] when None
Defaults ==
    /\ npc = "start"
    /\ rshape' = IF rshape.given THEN rshape ELSE Given(nshape)
    /\ eshape' = IF eshape.given THEN eshape ELSE Given(nshape)
    /\ npc' = "check_rcov"
    /\ UNCHANGED <<nshape, pshape, nerr, pairwise, cnout>>

\* if numbers.shape != rcov.shape
RcovMismatch(nsh, rsh) == nsh # rsh

\* if numbers.shape != positions.shape[:-1]
PositionsUnchecked(nsh, psh) == FALSE
PositionsMismatch(nsh, psh) == nsh # Leading(psh)

CheckRcov ==
    /\ npc = "check_rcov"
    /\ IF RcovMismatch(nshape, rshape.shape)
       THEN npc' = "error" /\ nerr' = "ValueError"
       ELSE npc' = "check_positions" /\ nerr' = nerr
    /\ UNCHANGED <<nshape, pshape, rshape, eshape, pairwise, cnout>>

CheckPositions ==
    /\ npc = "check_positions"
    /\ IF PositionsMismatch(nshape, pshape)
       THEN npc' = "error" /\ nerr' = "ValueError"
       ELSE npc' = "pairwise" /\ nerr' = nerr
    /\ UNCHANGED <<nshape, pshape, rshape, eshape, pairwise, cnout>>

\* mask = real_pairs(numbers)
MaskShape == Shape(Pairs(nshape))
\* distances = torch.where(mask, torch.cdist(positions, positions), eps)
DistShape == Broadcast(MaskShape, Shape(Pairs(Leading(pshape))))
\* den = k4 * exp(-(|en.unsqueeze(-2) - en.unsqueeze(-1)| + k5)^2 / k6)
DenShape == Shape(Pairs(eshape.shape))
\* rc = rcov.unsqueeze(-2) + rcov.unsqueeze(-1)
RcShape == Shape(Pairs(rshape.shape))
\* cf = where(mask * (distances <= cutoff), den * counting_function(distances, rc), 0)
CfShape ==
    Broadcast(Broadcast(MaskShape, DistShape),
              Broadcast(DenShape, Broadcast(DistShape, RcShape)))

\* the pairwise computation and return torch.sum(cf, dim=-1)
Pairwise ==
    /\ npc = "pairwise"
    /\ pairwise' = TRUE
    /\ IF CfShape.ok
       THEN npc' = "done" /\ cnout' = Given(Leading(CfShape.shape)) /\ nerr' = nerr
       ELSE npc' = "error" /\ nerr' = "RuntimeError" /\ cnout' = cnout
    /\ UNCHANGED <<nshape, pshape, rshape, eshape>>

\* shapes (n) and (b, n)
Shapes == {<<n>> : n \in 1 .. MaxAtoms} \cup {<<b, n>> : b \in 1 .. MaxAtoms, n \in 1 .. MaxAtoms}

InitN ==
    /\ nshape \in Shapes
    /\ pshape \in {sh \o <<3>> : sh \in Shapes}
    /\ rshape \in {None} \cup {Given(sh) : sh \in Shapes}
    /\ eshape \in {None} \cup {Given(sh) : sh \in Shapes}
    /\ npc = "start"
    /\ nerr = "none"
    /\ pairwise = FALSE
    /\ cnout = None

InitCN == InitN /\ IdleW /\ IdleZ /\ IdleC

NextCN ==
    \/ Defaults /\ UNCHANGED <<wvars, zvars, cvars>>
    \/ CheckRcov /\ UNCHANGED <<wvars, zvars, cvars>>
    \/ CheckPositions /\ UNCHANGED <<wvars, zvars, cvars>>
    \/ Pairwise /\ UNCHANGED <<wvars, zvars, cvars>>

SpecCN == InitCN /\ [][NextCN]_vars

\* the shape of numbers differs from that of the covalent radii or from the
\* leading shape of positions
ShapesDisagree ==
    \/ rshape.given /\ nshape # rshape.shape
    \/ nshape # Leading(pshape)

\* C8: with disagreeing shapes the call ends in a ValueError: no pairwise
\* computation is made and no CN tensor is returned
C8_ShapeMismatchRaises ==
    /\ pairwise => ~ShapesDisagree
    /\ (npc \in {"done", "error"} /\ ShapesDisagree) =>
           nerr = "ValueError" /\ ~pairwise /\ ~cnout.given

\* a ValueError for positions that would have broadcast against numbers
C8_Witness ==
    /\ npc = "error"
    /\ nerr = "ValueError"
    /\ nshape = rshape.shape
    /\ nshape # Leading(pshape)
    /\ CfShape.ok

====
